---------------------------- MODULE Spec2Model ----------------------------
(***************************************************************************)
(* bassclef: scripts/postprocess.py, the pandoc html postprocessor.        *)
(*                                                                         *)
(* A document is a sequence of lines; a line is a Python str that keeps    *)
(* its trailing newline.  Every stage of postprocess.py is an operator     *)
(* from line sequences to line sequences, computed character by character  *)
(* the way str.replace, str.startswith, slicing and re.search compute it.  *)
(***************************************************************************)
EXTENDS Integers, Sequences, FiniteSets, TLC

(***************************************************************************)
(* Python str.  A str is a sequence of characters, '' the empty sequence.  *)
(* A character is the one-character TLA+ string where TLA+ can write it    *)
(* (printable ASCII but U+0060, tab, newline, carriage return, form feed)  *)
(* and the name "U+XXXX" of its code point where it cannot, so that two    *)
(* characters are equal exactly when their code points are.                *)
(***************************************************************************)

\* The printable ASCII characters TLA+ can write in a string: code points
\* 32 to 95 and 97 to 126, in order (it cannot write U+0060).
AsciiLow ==
    " !\"#$%&'()*+,-./0123456789:;<=>?@ABCDEFGHIJKLMNOPQRSTUVWXYZ[\\]^_"
AsciiHigh == "abcdefghijklmnopqrstuvwxyz{|}~"

HexDigits == "0123456789ABCDEF"

\* n in hexadecimal, in at least width digits.
RECURSIVE Hex(_, _)
Hex(n, width) ==
    IF n = 0 /\ width <= 0 THEN ""
    ELSE LET d == n % 16 IN
         Hex(n \div 16, width - 1) \o SubSeq(HexDigits, d + 1, d + 1)

\* chr(n): the character of code point n.
chr(n) ==
    IF n \in 32..95 THEN SubSeq(AsciiLow, n - 31, n - 31)
    ELSE IF n \in 97..126 THEN SubSeq(AsciiHigh, n - 96, n - 96)
    ELSE CASE n = 9  -> "\t"
           [] n = 10 -> "\n"
           [] n = 12 -> "\f"
           [] n = 13 -> "\r"
           [] OTHER  -> "U+" \o Hex(n, 4)

\* The str a literal of the source denotes, for a literal all of whose
\* characters TLA+ can write.
Text(s) == [k \in 1..Len(s) |-> SubSeq(s, k, k)]

(***************************************************************************)
(* Python str operations.  Positions are 1-based here.                     *)
(***************************************************************************)

\* s[k], a character.
At(s, k) == s[k]

\* Whether t occurs in s at position k.
StartsWithAt(s, t, k) ==
    /\ k >= 1
    /\ k + Len(t) - 1 <= Len(s)
    /\ SubSeq(s, k, k + Len(t) - 1) = t

\* s.startswith(t)
startswith(s, t) == StartsWithAt(s, t, 1)

\* s.endswith(t)
endswith(s, t) == StartsWithAt(s, t, Len(s) - Len(t) + 1)

\* The least and the greatest element of a non-empty set of integers.
Least(S) == CHOOSE x \in S : \A y \in S : x <= y
Greatest(S) == CHOOSE x \in S : \A y \in S : x >= y

\* s.find(t, k): the lowest position >= k where t occurs, 0 when none.
find(s, t, k) ==
    LET at == {q \in k..(Len(s) - Len(t) + 1) : StartsWithAt(s, t, q)} IN
    IF at = {} THEN 0 ELSE Least(at)

\* t in s
contains(s, t) == find(s, t, 1) # 0

\* s.replace(old, new): every non-overlapping occurrence, left to right.
RECURSIVE replace(_, _, _)
replace(s, old, new) ==
    LET k == find(s, old, 1) IN
    IF k = 0 THEN s
    ELSE SubSeq(s, 1, k - 1) \o new
         \o replace(SubSeq(s, k + Len(old), Len(s)), old, new)

\* The characters str.rstrip() and the regex class \s take for whitespace:
\* those str.isspace() holds of.
Whitespace ==
    {chr(n) : n \in (9..13) \cup (28..32) \cup {133, 160, 5760}
                    \cup (8192..8202) \cup {8232, 8233, 8239, 8287, 12288}}

\* s.rstrip(): s up to its last character that is not whitespace.
rstrip(s) ==
    LET kept == {q \in 1..Len(s) : At(s, q) \notin Whitespace} IN
    IF kept = {} THEN <<>> ELSE SubSeq(s, 1, Greatest(kept))

\* s[a:-b] for a, b >= 0 (b = 0 is not expressible in Python; unused).
Slice(s, a, b) == SubSeq(s, a + 1, Len(s) - b)

(***************************************************************************)
(* Python re: the constructs the patterns of postprocess.py use.  A        *)
(* pattern is a sequence of items; re.search tries the start positions     *)
(* left to right and, at each, backtracks in the priority order of the     *)
(* items (a lazy star: shortest first; a greedy plus: longest first; an    *)
(* alternation: left to right).                                            *)
(***************************************************************************)

\* The first code point of each run of ten decimal digits (Unicode
\* category Nd): the regex class \d of a str pattern takes all of them.
DigitBlocks ==
    {48, 1632, 1776, 1984, 2406, 2534, 2662, 2790, 2918, 3046, 3174, 3302,
     3430, 3558, 3664, 3792, 3872, 4160, 4240, 6112, 6160, 6470, 6608, 6784,
     6800, 6992, 7088, 7232, 7248, 42528, 43216, 43264, 43472, 43504, 43600,
     44016, 65296, 66720, 68912, 69734, 69872, 69942, 70096, 70384, 70736,
     70864, 71248, 71360, 71472, 71904, 72016, 72784, 73040, 73120, 92768,
     92864, 93008, 120782, 120792, 120802, 120812, 120822, 123200, 123632,
     125264, 130032}

Digits == {chr(b + d) : b \in DigitBlocks, d \in 0..9}

Lit(t)  == [kind |-> "lit", text |-> t]
Lazy(c) == [kind |-> "lazy", class |-> c]
Plus(c) == [kind |-> "plus", class |-> c]
Alt(ts) == [kind |-> "alt", texts |-> ts]

\* Whether character ch is in the class: . [^"] \d \s
InClass(ch, c) ==
    CASE c = "dot"      -> ch # "\n"
      [] c = "notquote" -> ch # "\""
      [] c = "digit"    -> ch \in Digits
      [] c = "space"    -> ch \in Whitespace

\* No match.
Fail == <<-1>>

\* The length of the longest run of class c in s from pos.
Run(s, pos, c) ==
    LET stop == {q \in pos..Len(s) : ~InClass(At(s, q), c)} IN
    IF stop = {} THEN Len(s) - pos + 1 ELSE Least(stop) - pos

\* Items j.. of pattern p matched against s from pos: the end position of
\* each of these items, or Fail.
RECURSIVE MatchFrom(_, _, _, _)
RECURSIVE MatchAlt(_, _, _, _, _)

MatchRest(p, j, s, e) ==
    LET r == MatchFrom(p, j + 1, s, e) IN
    IF r = Fail THEN Fail ELSE <<e - 1>> \o r

\* A lazy star takes the fewest characters with which the rest matches.
MatchLazy(p, j, s, pos) ==
    LET ok == {n \in 0..Run(s, pos, p[j].class) :
                  MatchRest(p, j, s, pos + n) # Fail}
    IN IF ok = {} THEN Fail ELSE MatchRest(p, j, s, pos + Least(ok))

\* A greedy plus takes the most characters with which the rest matches.
MatchPlus(p, j, s, pos) ==
    LET ok == {n \in 1..Run(s, pos, p[j].class) :
                  MatchRest(p, j, s, pos + n) # Fail}
    IN IF ok = {} THEN Fail ELSE MatchRest(p, j, s, pos + Greatest(ok))

MatchAlt(p, j, s, pos, a) ==
    IF a > Len(p[j].texts) THEN Fail
    ELSE LET t == p[j].texts[a]
             r == IF StartsWithAt(s, t, pos)
                  THEN MatchRest(p, j, s, pos + Len(t))
                  ELSE Fail
         IN IF r # Fail THEN r ELSE MatchAlt(p, j, s, pos, a + 1)

MatchFrom(p, j, s, pos) ==
    IF j > Len(p) THEN <<>>
    ELSE CASE p[j].kind = "lit" ->
                IF StartsWithAt(s, p[j].text, pos)
                THEN MatchRest(p, j, s, pos + Len(p[j].text))
                ELSE Fail
           [] p[j].kind = "lazy" -> MatchLazy(p, j, s, pos)
           [] p[j].kind = "plus" -> MatchPlus(p, j, s, pos)
           [] p[j].kind = "alt" -> MatchAlt(p, j, s, pos, 1)

\* No match of a search.
NoMatch == [start |-> 0, ends |-> <<>>]

\* p.search(s): the match at the leftmost position that has one.
search(p, s) ==
    LET at == {k \in 1..(Len(s) + 1) : MatchFrom(p, 1, s, k) # Fail} IN
    IF at = {} THEN NoMatch
    ELSE [start |-> Least(at), ends |-> MatchFrom(p, 1, s, Least(at))]

\* The text item j of the pattern matched in match m of s.
Item(s, m, j) ==
    SubSeq(s, IF j = 1 THEN m.start ELSE m.ends[j - 1] + 1, m.ends[j])

\* The text items a..b of the pattern matched in match m of s.
Items(s, m, a, b) ==
    SubSeq(s, IF a = 1 THEN m.start ELSE m.ends[a - 1] + 1, m.ends[b])


(***************************************************************************)
(* The stages of postprocess.py.                                           *)
(***************************************************************************)

\* The two non-ASCII characters of fix_bugs_in_new_pandoc's literals:
\* U+201C (left double quotation mark) and U+201D (right), as strs.
ldquo == <<chr(8220)>>
rdquo == <<chr(8221)>>

\* util.config: the configuration lookup; 'webroot' resolves to a path.
config(key) == IF key = "webroot" THEN Text("/blog") ELSE Text("")

\* for i, line in enumerate(lines): lines[i] = line.replace(old, new)
ReplaceInLines(lines, old, new) ==
    [k \in 1..Len(lines) |-> replace(lines[k], old, new)]

fix_old_old ==
    Text("&lt;span class=&quot;fa fa-envelope badge&quot;&gt;&lt;/span&gt;")
fix_old_new == Text("<span class=\"fa fa-envelope badge\"></span>")

fix_bugs_in_old_pandoc(lines) ==
    ReplaceInLines(lines, fix_old_old, fix_old_new)

\* r'<title>(\d+)// (.*?)</title>'
p_title ==
    <<Lit(Text("<title>")), Plus("digit"), Lit(Text("// ")), Lazy("dot"),
      Lit(Text("</title>"))>>

\* r'<meta (.*?) content="(\d+)// (.*?)" />'
p_meta ==
    <<Lit(Text("<meta ")), Lazy("dot"), Lit(Text(" content=\"")),
      Plus("digit"), Lit(Text("// ")), Lazy("dot"), Lit(Text("\" />"))>>

\* r'(\s+)<h1 (.*?)>(\d+)// (.*?)</h1>'
p_h1 ==
    <<Plus("space"), Lit(Text("<h1 ")), Lazy("dot"), Lit(Text(">")),
      Plus("digit"), Lit(Text("// ")), Lazy("dot"), Lit(Text("</h1>"))>>

\* lines[i] = '<title>%s. %s</title>' % (num, title)
decode_title(line) ==
    LET m == search(p_title, line) IN
    IF m = NoMatch THEN line
    ELSE Text("<title>") \o Item(line, m, 2) \o Text(". ") \o Item(line, m, 4)
         \o Text("</title>")

\* lines[i] = '<meta %s content="%s. %s" />' % (attrs, num, title)
decode_meta(line) ==
    LET m == search(p_meta, line) IN
    IF m = NoMatch THEN line
    ELSE Text("<meta ") \o Item(line, m, 2) \o Text(" content=\"")
         \o Item(line, m, 4) \o Text(". ") \o Item(line, m, 6)
         \o Text("\" />")

\* lines[i] = '%s<h1 %s>%s. %s</h1>' % (spaces, attrs, num, title)
decode_h1(line) ==
    LET m == search(p_h1, line) IN
    IF m = NoMatch THEN line
    ELSE Item(line, m, 1) \o Text("<h1 ") \o Item(line, m, 3) \o Text(">")
         \o Item(line, m, 5) \o Text(". ") \o Item(line, m, 7) \o Text("</h1>")

\* The two replace passes on html-encoded anchors.
redecode_anchors(line) ==
    replace(replace(line, Text("&lt;a href=") \o ldquo, Text("<a href=\"")),
            rdquo \o Text("&gt;"), Text("\">"))

\* lines[i] = line.replace('<p><br /></p>', '<br />\n')
normalize_breaks(line) ==
    replace(line, Text("<p><br /></p>"), Text("<br />\n"))

\* The passes of fix_bugs_in_new_pandoc over one line, in the code's order.
fix_new_line(line) ==
    normalize_breaks(
        decode_h1(decode_meta(decode_title(redecode_anchors(line)))))

fix_bugs_in_new_pandoc(lines) ==
    [k \in 1..Len(lines) |-> fix_new_line(lines[k])]

\* '((src|href)="/images/(.*?)")'
p_image_url ==
    <<Alt(<<Text("src"), Text("href")>>), Lit(Text("=\"/images/")),
      Lazy("dot"), Lit(Text("\""))>>

\* The rewrite without the web-root.
adjust_image_url_no_webroot(line) ==
    LET m == search(p_image_url, line) IN
    IF m = NoMatch THEN line
    ELSE LET old == Items(line, m, 1, 4)
             new == Item(line, m, 1) \o Text("=\"/images/") \o Item(line, m, 3)
                    \o Text("\"")
         IN replace(line, old, new)

adjust_image_url(line) ==
    LET m == search(p_image_url, line) IN
    IF m = NoMatch THEN line
    ELSE LET old == Items(line, m, 1, 4)
             new == Item(line, m, 1) \o Text("=\"") \o config("webroot")
                    \o Text("/images/") \o Item(line, m, 3) \o Text("\"")
         IN replace(line, old, new)

adjust_image_urls(lines) ==
    [k \in 1..Len(lines) |-> adjust_image_url(lines[k])]

\* '(<img src="/images/sized/(.*?)" .*? />)'
p_sized ==
    <<Lit(Text("<img src=\"/images/sized/")), Lazy("dot"), Lit(Text("\" ")),
      Lazy("dot"), Lit(Text(" />"))>>

link_image(line) ==
    LET m == search(p_sized, line) IN
    IF m = NoMatch THEN line
    ELSE LET old == Items(line, m, 1, 5)
             new == Text("<a href=\"/images/") \o Item(line, m, 2)
                    \o Text("\">") \o old \o Text("</a>")
         IN replace(line, old, new)

link_images(lines) ==
    [k \in 1..Len(lines) |-> link_image(lines[k])]

\* r'(<a href="([^"]*?)"><span class="fa (.*?)">)'
p_badge ==
    <<Lit(Text("<a href=\"")), Lazy("notquote"),
      Lit(Text("\"><span class=\"fa ")), Lazy("dot"), Lit(Text("\">"))>>

\* The rewrite with target="_blank" put on the span instead of the anchor.
open_tab_on_span(line) ==
    LET m == search(p_badge, line) IN
    IF m = NoMatch THEN line
    ELSE LET old == Items(line, m, 1, 5)
             new == Text("<a href=\"") \o Item(line, m, 2)
                    \o Text("\"><span class=\"fa ") \o Item(line, m, 4)
                    \o Text("\" target=\"_blank\">")
         IN replace(line, old, new)

open_tab_when_clicked(line) ==
    LET m == search(p_badge, line) IN
    IF m = NoMatch THEN line
    ELSE LET old == Items(line, m, 1, 5)
             new == Text("<a href=\"") \o Item(line, m, 2)
                    \o Text("\" target=\"_blank\"><span class=\"fa ")
                    \o Item(line, m, 4) \o Text("\">")
         IN replace(line, old, new)

open_tabs_when_clicked(lines) ==
    [k \in 1..Len(lines) |-> open_tab_when_clicked(lines[k])]

\* r'(<a href="([^"]*?)" (.*?)><span class="fa (.*?)">)'
p_social ==
    <<Lit(Text("<a href=\"")), Lazy("notquote"), Lit(Text("\" ")), Lazy("dot"),
      Lit(Text("><span class=\"fa ")), Lazy("dot"), Lit(Text("\">"))>>

\* The chain with its google test moved to the front.
tooltip_title_google_first(url) ==
    IF contains(url, Text("google")) THEN Text("Share this on Google+")
    ELSE IF contains(url, Text("twitter")) THEN Text("Tweet this")
    ELSE IF contains(url, Text("facebook")) THEN Text("Share this on Facebook")
    ELSE IF contains(url, Text("linkedin")) THEN Text("Share this on LinkedIn")
    ELSE IF contains(url, Text("mailto")) THEN Text("Share this by Email")
    ELSE Text("")

\* The if/elif chain on the url; "" stands for the else branch (continue).
tooltip_title(url) ==
    IF contains(url, Text("twitter")) THEN Text("Tweet this")
    ELSE IF contains(url, Text("facebook")) THEN Text("Share this on Facebook")
    ELSE IF contains(url, Text("google")) THEN Text("Share this on Google+")
    ELSE IF contains(url, Text("linkedin")) THEN Text("Share this on LinkedIn")
    ELSE IF contains(url, Text("mailto")) THEN Text("Share this by Email")
    ELSE Text("")

generate_tooltip(line) ==
    LET m == search(p_social, line) IN
    IF m = NoMatch THEN line
    ELSE LET old == Items(line, m, 1, 7)
             title == tooltip_title(Item(line, m, 2))
             new == Text("<a href=\"") \o Item(line, m, 2) \o Text("\" ")
                    \o Item(line, m, 4) \o Text(" title=\"") \o title
                    \o Text("\"><span class=\"fa ") \o Item(line, m, 6)
                    \o Text("\">")
         IN IF title = Text("") THEN line ELSE replace(line, old, new)

generate_tooltips(lines) ==
    [k \in 1..Len(lines) |-> generate_tooltip(lines[k])]

\* ''.join(lines)
RECURSIVE join(_)
join(lines) ==
    IF Len(lines) = 0 THEN Text("") ELSE Head(lines) \o join(Tail(lines))

(***************************************************************************)
(* tidy_html.  Its pairwise merge is modelled one loop iteration at a      *)
(* time: the loop enumerates the copy lines[:-1] while it writes to lines. *)
(***************************************************************************)

\* Python's None, the deletion marker: a value no str equals, the empty
\* str included, since its one element is not a character.
None == <<"None">>

\* v is None
IsNone(v) == v = None

\* for i, line in enumerate(lines): lines[i] = line.replace('<hr />', ...)
tidy_hr(lines) == ReplaceInLines(lines, Text("<hr />"), Text("\n<hr />\n"))

\* The outcome of one loop iteration: the list, whether the iteration
\* merged, and the exception it raised ("" when none).
Outcome(lines, merge, raised) ==
    [lines |-> lines, merge |-> merge, raised |-> raised]

\* The loop written over the list itself: for i in range(len(lines) - 1)
\* with line = lines[i], which hands out what earlier iterations wrote.
Enumerated_live(lines, scan, i) == lines[i + 1]

\* for i, line in enumerate(lines[:-1]): the element handed out at index i,
\* where scan is the copy lines[:-1] made before the loop.
Enumerated(lines, scan, i) == scan[i + 1]

\* The merge without its second assignment: the comment line is kept.
Merge_keeps_comment(lines, i, text) ==
    [lines EXCEPT
        ![i + 1] = Slice(lines[i + 1], 0, 1) \o Text(" ") \o text
                   \o Text("\n")]

\* lines[i] = lines[i][:-1] + ' ' + text + '\n'; lines[i+1] = None
Merge(lines, i, text) ==
    [lines EXCEPT
        ![i + 1] = Slice(lines[i + 1], 0, 1) \o Text(" ") \o text
                   \o Text("\n"),
        ![i + 2] = None]

\* The body of the merge loop at Python index i, where line is the element
\* enumerate() hands out and lines the list as it is now.
tidy_merge(lines, line, i) ==
    IF IsNone(line) THEN Outcome(lines, FALSE, "AttributeError")
    ELSE IF ~startswith(line, Text("</div>")) THEN Outcome(lines, FALSE, "")
    ELSE IF IsNone(lines[i + 2]) THEN Outcome(lines, FALSE, "AttributeError")
    ELSE IF /\ startswith(lines[i + 2], Text("<!--"))
            /\ endswith(rstrip(lines[i + 2]), Text("-->"))
    THEN IF IsNone(lines[i + 1]) THEN Outcome(lines, FALSE, "TypeError")
         ELSE Outcome(Merge(lines, i, lines[i + 2]), TRUE, "")
    ELSE IF /\ startswith(lines[i + 2], Text("<p><!--"))
            /\ endswith(rstrip(lines[i + 2]), Text("--></p>"))
    THEN IF IsNone(lines[i + 1]) THEN Outcome(lines, FALSE, "TypeError")
         ELSE Outcome(Merge(lines, i, Slice(lines[i + 2], 3, 5)), TRUE, "")
    ELSE Outcome(lines, FALSE, "")

\* lines = [line for line in lines if line is not None]
tidy_filter(lines) == SelectSeq(lines, LAMBDA v : ~IsNone(v))

\* if line.startswith('<div class="body">'): lines[i] = '\n' + line
tidy_body(lines) ==
    [k \in 1..Len(lines) |->
        IF startswith(lines[k], Text("<div class=\"body\">"))
        THEN Text("\n") \o lines[k] ELSE lines[k]]

(***************************************************************************)
(* The inputs.                                                             *)
(***************************************************************************)

\* The longest multi-line document, and the most calls of one stage.
MaxDocLen == 4
MaxCalls == 2

\* One-line documents: lines each stage's pattern matches, and near misses.
LinePool ==
    { Text("<p>hello</p>\n"),
      fix_old_old \o Text("\n"),
      Text("&lt;a href=") \o ldquo \o Text("http://x") \o rdquo
          \o Text("&gt;y</a>\n"),
      Text("if (a) {b}&gt;c\n"),
      Text("<title>12// My Title</title>\n"),
      Text("<title>") \o <<chr(1635)>> \o Text("// T</title>\n"),
      Text("  <title>3// T</title> <!-- t -->\n"),
      Text("<meta name=\"t\" content=\"3// T\" />\n"),
      Text("<h1 class=\"x\">12// My Title</h1>\n"),
      Text("  <h1 class=\"x\">12// My Title</h1>\n"),
      <<chr(11)>> \o Text("<h1 a>1// T</h1>\n"),
      Text("<body> \t<h1 id=\"a\">1// T</h1></body>\n"),
      Text("<p><br /></p>\n"),
      Text("<img src=\"/images/x.png\">\n"),
      Text("<img src=\"/images/a\" href=\"/images/b\">\n"),
      Text("<img src=\"/images/sized/cat.jpg\" alt=\"c\" />\n"),
      Text("<a href=\"/images/cat.jpg\">")
          \o Text("<img src=\"/images/sized/cat.jpg\" alt=\"c\" /></a>\n"),
      Text("<a href=\"mailto:x\"><span class=\"fa e\"></span></a>\n"),
      Text("<a href=\"u\"><span class=\"fa a\">")
          \o Text("<a href=\"v\"><span class=\"fa b\">\n"),
      Text("<a href=\"twitter\" t><span class=\"fa b\">\n"),
      Text("<a href=\"facebook\" ><span class=\"fa b\">\n"),
      Text("<a href=\"google/twitter\" t><span class=\"fa b\">\n"),
      Text("<a href=\"x.linkedin\" t><span class=\"fa b\">\n"),
      Text("<a href=\"mailto:a\" target=\"_blank\"><span class=\"fa b\">\n"),
      Text("<a href=\"other\" t><span class=\"fa b\">\n"),
      Text("<a href=\"other\" t><span class=\"fa b\">")
          \o Text("<a href=\"twitter\" t><span class=\"fa b\">\n"),
      Text("<a href=\"twitter\" t title=\"Tweet this\">")
          \o Text("<span class=\"fa b\">\n"),
      Text("a<hr />b\n"),
      Text("<div class=\"body\">\n") }

\* The lines of the multi-line documents: a closing div, a bare comment,
\* a paragraph-wrapped comment, and a line no pattern matches.
TidyPool ==
    { Text("</div>\n"),
      Text("<!-- note -->\n"),
      Text("<p><!-- n --></p>\n"),
      Text("<p>x</p>\n") }

\* Documents whose comment line has whitespace before its newline.
SpacedDocs ==
    { <<Text("</div>\n"), Text("<!-- note --> \n")>>,
      <<Text("</div>\n"), Text("<!-- note --> \n"), Text("<p>x</p>\n")>>,
      <<Text("</div>\n"), Text("<p><!-- n --></p> \n")>>,
      <<Text("</div>\n"), Text("<p><!-- n --></p> \n"), Text("<p>x</p>\n")>>,
      <<Text("</div>\n"), Text("<!-- c -->") \o <<chr(11)>> \o Text("\n")>> }

\* The document with the newline of its last line removed: a stream that
\* does not end in a newline.
ChopLast(doc) == [doc EXCEPT ![Len(doc)] = Slice(@, 0, 1)]

WholeDocs ==
    {<<l>> : l \in LinePool}
    \cup UNION {[1..n -> TidyPool] : n \in 2..MaxDocLen}
    \cup SpacedDocs

\* What iterating a text stream yields: non-empty lines, each ending in
\* its newline, except that the last may lack it.
Docs == {<<>>} \cup WholeDocs \cup {ChopLast(d) : d \in WholeDocs}

\* What a stage function can be called with: any list of strs, the empty
\* str among them.
Lists ==
    Docs \cup { <<Text("</div>\n"), Text(""), Text("<p>x</p>\n")>>,
                <<Text(""), Text("<!-- note -->\n")>> }

(***************************************************************************)
(* The program: postprocess() run on a stream, or one stage called on a    *)
(* line sequence, possibly again on its own result.                        *)
(***************************************************************************)

VARIABLES
    entry,    \* the function called: "postprocess", or a stage's name
    stdin,    \* the input stream (postprocess) or the argument (a stage)
    lines,    \* the stage functions' list, as it is now
    prev,     \* lines as handed to the last stage called
    ncalls,   \* the number of stage calls so far
    pc,       \* "read", "idle" (between calls), "scan" (in the merge
              \* loop of tidy_html), "done" or "raised"
    scan,     \* tidy_html: the copy lines[:-1] the loop enumerates
    i,        \* tidy_html: the loop's index
    merged,   \* tidy_html: the indexes i at which the loop merged
    stdout    \* what postprocess printed

vars == <<entry, stdin, lines, prev, ncalls, pc, scan, i, merged, stdout>>

\* The stage calls of postprocess(), in order.
Pipeline ==
    <<"fix_bugs_in_old_pandoc", "fix_bugs_in_new_pandoc", "link_images",
      "open_tabs_when_clicked", "generate_tooltips", "tidy_html">>

Stages ==
    {"fix_bugs_in_old_pandoc", "fix_bugs_in_new_pandoc", "adjust_image_urls",
     "link_images", "open_tabs_when_clicked", "generate_tooltips",
     "tidy_html"}

Init ==
    /\ entry \in {"postprocess"} \cup Stages
    /\ stdin \in IF entry = "postprocess" THEN Docs ELSE Lists
    /\ lines = IF entry = "postprocess" THEN <<>> ELSE stdin
    /\ prev = <<>>
    /\ ncalls = 0
    /\ pc = IF entry = "postprocess" THEN "read" ELSE "idle"
    /\ scan = <<>>
    /\ i = 0
    /\ merged = <<>>
    /\ stdout = Text("")

\* lines = [line for line in sys.stdin]
read_stdin ==
    /\ pc = "read"
    /\ lines' = stdin
    /\ pc' = "idle"
    /\ UNCHANGED <<entry, stdin, prev, ncalls, scan, i, merged, stdout>>

\* Whether stage f is the next call: postprocess calls its stages in
\* order; a stage called on its own may be called again on its result.
MayCall(f) ==
    /\ pc = "idle"
    /\ IF entry = "postprocess"
       THEN ncalls < Len(Pipeline) /\ Pipeline[ncalls + 1] = f
       ELSE entry = f /\ ncalls < MaxCalls

\* The stage whose result lines is ("" before the first call).
LastCall ==
    IF ncalls = 0 THEN ""
    ELSE IF entry = "postprocess" THEN Pipeline[ncalls] ELSE entry

Returned(result) ==
    /\ lines' = result
    /\ prev' = lines
    /\ ncalls' = ncalls + 1
    /\ UNCHANGED <<entry, stdin, pc, scan, i, merged, stdout>>

call_fix_bugs_in_old_pandoc ==
    /\ MayCall("fix_bugs_in_old_pandoc")
    /\ Returned(fix_bugs_in_old_pandoc(lines))

call_fix_bugs_in_new_pandoc ==
    /\ MayCall("fix_bugs_in_new_pandoc")
    /\ Returned(fix_bugs_in_new_pandoc(lines))

call_adjust_image_urls ==
    /\ MayCall("adjust_image_urls")
    /\ Returned(adjust_image_urls(lines))

call_link_images ==
    /\ MayCall("link_images")
    /\ Returned(link_images(lines))

call_open_tabs_when_clicked ==
    /\ MayCall("open_tabs_when_clicked")
    /\ Returned(open_tabs_when_clicked(lines))

call_generate_tooltips ==
    /\ MayCall("generate_tooltips")
    /\ Returned(generate_tooltips(lines))

\* tidy_html up to the merge loop: the <hr /> pass, then lines[:-1].
tidy_html_enter ==
    /\ MayCall("tidy_html")
    /\ lines' = tidy_hr(lines)
    /\ prev' = lines
    /\ ncalls' = ncalls + 1
    /\ scan' = SubSeq(lines', 1, Len(lines') - 1)
    /\ i' = 0
    /\ merged' = <<>>
    /\ pc' = "scan"
    /\ UNCHANGED <<entry, stdin, stdout>>

\* One iteration of the merge loop.
tidy_html_loop ==
    /\ pc = "scan"
    /\ i < Len(scan)
    /\ LET r == tidy_merge(lines, Enumerated(lines, scan, i), i) IN
        /\ lines' = r.lines
        /\ merged' = IF r.merge THEN Append(merged, i) ELSE merged
        /\ pc' = IF r.raised = "" THEN "scan" ELSE "raised"
    /\ i' = i + 1
    /\ UNCHANGED <<entry, stdin, prev, ncalls, scan, stdout>>

\* tidy_html after the loop: drop the marked lines, the body pass, return.
tidy_html_return ==
    /\ pc = "scan"
    /\ i = Len(scan)
    /\ lines' = tidy_body(tidy_filter(lines))
    /\ pc' = "idle"
    /\ UNCHANGED <<entry, stdin, prev, ncalls, scan, i, merged, stdout>>

\* print(''.join(lines))
print_lines ==
    /\ entry = "postprocess"
    /\ pc = "idle"
    /\ ncalls = Len(Pipeline)
    /\ stdout' = join(lines) \o Text("\n")
    /\ pc' = "done"
    /\ UNCHANGED <<entry, stdin, lines, prev, ncalls, scan, i, merged>>

Next ==
    \/ read_stdin
    \/ call_fix_bugs_in_old_pandoc
    \/ call_fix_bugs_in_new_pandoc
    \/ call_adjust_image_urls
    \/ call_link_images
    \/ call_open_tabs_when_clicked
    \/ call_generate_tooltips
    \/ tidy_html_enter
    \/ tidy_html_loop
    \/ tidy_html_return
    \/ print_lines

Spec == Init /\ [][Next]_vars

(***************************************************************************)
(* Properties.                                                             *)
(***************************************************************************)

\* A stage has returned: lines is its result and prev was its argument.
Returned_from(f) == pc \in {"idle", "done"} /\ ncalls > 0 /\ LastCall = f

\* C7: every stage other than tidy_html returns as many lines as it was
\* given; tidy_html returns fewer by exactly the number of merges it made
\* (so never more), and its list keeps its length while the loop runs.
C7_LengthInvariant ==
    /\ \A f \in Stages \ {"tidy_html"} :
          Returned_from(f) => Len(lines) = Len(prev)
    /\ pc = "scan" => Len(lines) = Len(prev)
    /\ Returned_from("tidy_html") =>
          /\ Len(lines) = Len(prev) - Len(merged)
          /\ Len(lines) <= Len(prev)

\* tidy_html has returned a four-line document shortened by two merges.
C7_Witness ==
    /\ Returned_from("tidy_html")
    /\ Len(prev) = 4
    /\ Len(merged) = 2
    /\ Len(lines) = 2

\* The lines of tidy_html's argument (1-based) that a merge consumed as
\* its comment, and those a merge extended as its </div> line.
Consumed == {merged[a] + 2 : a \in 1..Len(merged)}
Extended == {merged[a] + 1 : a \in 1..Len(merged)}

\* Where line k of tidy_html's argument is in its result.
PositionOf(k) == k - Cardinality({c \in Consumed : c < k})

\* C9: the merge loop never raises on a deletion marker; the merges are
\* disjoint pairs taken left to right, so no line is in two merges and no
\* consumed line is the </div> side of a merge; exactly the consumed lines
\* carry the marker, and the loop reads neither a marked line as its
\* </div> line nor a marked successor; every line that was not consumed is
\* in the result, in order: as it was after the <hr /> and body passes,
\* or, for a </div> line that was merged, extended by the comment.
C9_NoDoubleConsumption ==
    /\ pc # "raised"
    /\ \A a, b \in 1..Len(merged) : a < b => merged[a] + 1 < merged[b]
    /\ Consumed \cap Extended = {}
    /\ pc = "scan" =>
          /\ \A k \in 1..Len(lines) : IsNone(lines[k]) <=> k \in Consumed
          /\ i < Len(scan) /\ startswith(scan[i + 1], Text("</div>")) =>
                ~IsNone(lines[i + 1]) /\ ~IsNone(lines[i + 2])
    /\ Returned_from("tidy_html") =>
          \A k \in (1..Len(prev)) \ Consumed :
             LET src == tidy_hr(prev)[k]
                 out == lines[PositionOf(k)]
             IN IF k \in Extended
                THEN startswith(out, Slice(src, 0, 1) \o Text(" "))
                ELSE out = tidy_body(<<src>>)[1]

\* The loop has gone past a line it had marked for deletion, whose
\* successor is a comment too.
C9_Witness ==
    /\ pc = "scan"
    /\ i = 2
    /\ merged = <<0>>
    /\ IsNone(lines[2])
    /\ startswith(prev[3], Text("<!--"))

\* The number of positions of line at which pattern p matches.
MatchCount(p, line) ==
    Cardinality({k \in 1..Len(line) : MatchFrom(p, 1, line, k) # Fail})

\* No line of the stage's first argument holds two matches of p.
AtMostOneMatch(p) == \A k \in 1..Len(stdin) : MatchCount(p, stdin[k]) <= 1

\* C1 as amended: applying a stage to its own result changes nothing, for
\* fix_bugs_in_old_pandoc on every line sequence, and for adjust_image_urls
\* and open_tabs_when_clicked on line sequences none of whose lines holds
\* more than one match of the stage's pattern.
C1_Idempotent ==
    (pc = "idle" /\ ncalls >= 2) =>
        /\ entry = "fix_bugs_in_old_pandoc" => lines = prev
        /\ entry = "adjust_image_urls" /\ AtMostOneMatch(p_image_url) =>
              lines = prev
        /\ entry = "open_tabs_when_clicked" /\ AtMostOneMatch(p_badge) =>
              lines = prev

\* open_tabs_when_clicked rewrote the one badge link of a line, and its
\* second application changed nothing.
C1_Witness ==
    /\ entry = "open_tabs_when_clicked"
    /\ pc = "idle"
    /\ ncalls = 2
    /\ Len(stdin) = 1
    /\ MatchCount(p_badge, stdin[1]) = 1
    /\ prev # stdin
    /\ lines = prev

\* C1 as stated: each of the five rewrite stages is idempotent on every
\* line sequence.
C1_Original ==
    (/\ pc = "idle"
     /\ ncalls >= 2
     /\ entry \in {"fix_bugs_in_old_pandoc", "adjust_image_urls",
                   "link_images", "open_tabs_when_clicked",
                   "generate_tooltips"}) =>
        lines = prev

\* The attribute adjust_image_urls writes for match m of line.
Prefixed(line, m) ==
    Item(line, m, 1) \o Text("=\"") \o config("webroot") \o Text("/images/")
    \o Item(line, m, 3) \o Text("\"")

\* C2 as amended: postprocess does not call adjust_image_urls, and prints
\* the line <img src="/images/x.png"> as it read it; the stage called on
\* its own turns that line into <img src="/blog/images/x.png">, and in
\* general leaves a line without a match alone and otherwise keeps the text
\* before the first src= or href= value that begins with /images/ and
\* writes that attribute with the web-root prepended.
C2_StageOnly ==
    /\ Returned_from("adjust_image_urls") =>
          /\ entry = "adjust_image_urls"
          /\ prev = <<Text("<img src=\"/images/x.png\">\n")>> =>
                lines = <<Text("<img src=\"/blog/images/x.png\">\n")>>
          /\ \A k \in 1..Len(prev) :
                LET m == search(p_image_url, prev[k]) IN
                IF m = NoMatch THEN lines[k] = prev[k]
                ELSE /\ SubSeq(lines[k], 1, m.start - 1)
                           = SubSeq(prev[k], 1, m.start - 1)
                     /\ StartsWithAt(lines[k], Prefixed(prev[k], m), m.start)
    /\ (/\ entry = "postprocess"
        /\ pc = "done"
        /\ stdin = <<Text("<img src=\"/images/x.png\">\n")>>) =>
          /\ startswith(stdout, Text("<img src=\"/images/x.png\">\n"))
          /\ ~contains(stdout, config("webroot"))

\* adjust_image_urls, called on its own, has prefixed the example line.
C2_Witness ==
    /\ Returned_from("adjust_image_urls")
    /\ ncalls = 1
    /\ prev = <<Text("<img src=\"/images/x.png\">\n")>>
    /\ lines = <<Text("<img src=\"/blog/images/x.png\">\n")>>

\* C2 as stated: what postprocess prints holds, for every input line with
\* a src= or href= value that begins with /images/, the first such
\* attribute with the web-root prepended.
C2_Original ==
    (entry = "postprocess" /\ pc = "done") =>
        \A k \in 1..Len(stdin) :
            LET m == search(p_image_url, stdin[k]) IN
            m # NoMatch => contains(stdout, Prefixed(stdin[k], m))

\* r'<h1 (.*?)>(\d+)// (.*?)</h1>': an h1 element with an N// marker,
\* whatever is in front of it.
p_h1_element == SubSeq(p_h1, 2, Len(p_h1))

\* The whitespace right before position k of line.
SpaceBefore(line, k) ==
    LET head == SubSeq(line, 1, k - 1) IN
    SubSeq(head, Len(rstrip(head)) + 1, Len(head))

\* C3 as stated: after fix_bugs_in_new_pandoc, every line that held an
\* element <h1 ATTRS>N// TITLE</h1> holds <h1 ATTRS>N. TITLE</h1> behind
\* the same whitespace, if any; the line <h1 class="x">12// My Title</h1>
\* has become <h1 class="x">12. My Title</h1>.
C3_HeadingDecode ==
    Returned_from("fix_bugs_in_new_pandoc") =>
        \A k \in 1..Len(prev) :
            LET m == search(p_h1_element, prev[k]) IN
            m # NoMatch =>
                contains(lines[k],
                         SpaceBefore(prev[k], m.start) \o Text("<h1 ")
                         \o Item(prev[k], m, 2) \o Text(">")
                         \o Item(prev[k], m, 4) \o Text(". ")
                         \o Item(prev[k], m, 6) \o Text("</h1>"))

\* The line is a comment <!-- ... --> and at most its newline.
IsBareComment(line) ==
    /\ startswith(line, Text("<!--"))
    /\ endswith(line, Text("-->")) \/ endswith(line, Text("-->\n"))

\* C4 as stated: a merge of a </div> line with a bare comment line leaves
\* one line, the </div> line without its newline, a space, the comment
\* and one newline; the list is shorter by one per merge, and the line
\* after the comment follows the merged line unchanged.
C4_BareCommentMerge ==
    Returned_from("tidy_html") =>
        \A a \in 1..Len(merged) :
            LET d == merged[a] + 1
                c == merged[a] + 2
            IN IsBareComment(prev[c]) =>
                /\ lines[PositionOf(d)]
                      = Slice(prev[d], 0, 1) \o Text(" ") \o rstrip(prev[c])
                        \o Text("\n")
                /\ Len(lines) = Len(prev) - Len(merged)
                /\ (c < Len(prev) /\ (c + 1) \notin Extended) =>
                      lines[PositionOf(d) + 1] = prev[c + 1]

\* C8 as stated: a merge of a </div> line with a paragraph-wrapped comment
\* line leaves the </div> line without its newline, a space, the comment
\* without its <p> and </p>, and one newline, also when the comment line
\* has trailing whitespace or no newline.
C8_ParagraphMerge ==
    Returned_from("tidy_html") =>
        \A a \in 1..Len(merged) :
            LET d == merged[a] + 1
                c == merged[a] + 2
            IN startswith(prev[c], Text("<p><!--")) =>
                lines[PositionOf(d)]
                   = Slice(prev[d], 0, 1) \o Text(" ")
                     \o Slice(rstrip(prev[c]), 3, 4) \o Text("\n")

\* No pattern of any stage matches the line.
Unmatched(line) ==
    /\ ~contains(line, fix_old_old)
    /\ redecode_anchors(line) = line
    /\ search(p_title, line) = NoMatch
    /\ search(p_meta, line) = NoMatch
    /\ search(p_h1, line) = NoMatch
    /\ ~contains(line, Text("<p><br /></p>"))
    /\ search(p_image_url, line) = NoMatch
    /\ search(p_sized, line) = NoMatch
    /\ search(p_badge, line) = NoMatch
    /\ search(p_social, line) = NoMatch
    /\ ~contains(line, Text("<hr />"))
    /\ ~startswith(line, Text("</div>"))
    /\ ~startswith(line, Text("<div class=\"body\">"))

\* C6 as stated: when no line of the input matches a pattern, postprocess
\* prints exactly the concatenation of the input lines.
C6_PassThrough ==
    (/\ entry = "postprocess"
     /\ pc = "done"
     /\ \A k \in 1..Len(stdin) : Unmatched(stdin[k])) =>
        stdout = join(stdin)

\* The line with the "// " of the first match of p, its item j, replaced
\* by ". " and nothing else changed.
DecodedInPlace(p, j, line) ==
    LET m == search(p, line) IN
    IF m = NoMatch THEN line
    ELSE SubSeq(line, 1, m.ends[j - 1]) \o Text(". ")
         \o SubSeq(line, m.ends[j] + 1, Len(line))

\* C10 as stated: where fix_bugs_in_new_pandoc decodes an N// marker in a
\* title, meta or h1 element, the line changes in that marker only; the
\* text around the element and the line's newline stay.
C10_InPlaceDecode ==
    Returned_from("fix_bugs_in_new_pandoc") =>
        \A k \in 1..Len(prev) :
            lines[k] = normalize_breaks(
                           DecodedInPlace(p_h1, 6,
                               DecodedInPlace(p_meta, 5,
                                   DecodedInPlace(p_title, 3,
                                       redecode_anchors(prev[k])))))

Keywords ==
    <<Text("twitter"), Text("facebook"), Text("google"), Text("linkedin"),
      Text("mailto")>>

Labels ==
    <<Text("Tweet this"), Text("Share this on Facebook"),
      Text("Share this on Google+"), Text("Share this on LinkedIn"),
      Text("Share this by Email")>>

\* The first keyword, in the order of Keywords, that url contains; 0
\* when it contains none.
FirstKeyword(url) ==
    LET S == {n \in 1..Len(Keywords) : contains(url, Keywords[n])} IN
    IF S = {} THEN 0 ELSE CHOOSE n \in S : \A o \in S : n <= o

\* The anchor and span opening of match m of line, with the title of
\* keyword n.
Titled(line, m, n) ==
    Text("<a href=\"") \o Item(line, m, 2) \o Text("\" ") \o Item(line, m, 4)
    \o Text(" title=\"") \o Labels[n] \o Text("\"><span class=\"fa ")
    \o Item(line, m, 6) \o Text("\">")

\* C5 as amended: generate_tooltips looks at the leftmost match in the
\* line of <a href="U" ATTRS><span class="fa CLASSES"> only.  When U
\* holds none of the five keywords, or the line has no match, the line is
\* returned unchanged; otherwise the text before the match is kept, the
\* match gets the title of the first keyword in the order twitter,
\* facebook, google, linkedin, mailto that U contains, and in the text
\* after it only further copies of the matched text are rewritten, the
\* same way.
C5_FirstAnchor ==
    Returned_from("generate_tooltips") =>
        \A k \in 1..Len(prev) :
            LET line == prev[k]
                m == search(p_social, line)
                n == FirstKeyword(Item(line, m, 2))
            IN IF m = NoMatch THEN lines[k] = line
               ELSE IF n = 0 THEN lines[k] = line
               ELSE lines[k] = SubSeq(line, 1, m.start - 1)
                               \o Titled(line, m, n)
                               \o replace(SubSeq(line, m.ends[7] + 1,
                                                 Len(line)),
                                          Items(line, m, 1, 7),
                                          Titled(line, m, n))

\* generate_tooltips has titled an anchor whose url holds two keywords
\* with the label of the one first in the order.
C5_Witness ==
    /\ Returned_from("generate_tooltips")
    /\ entry = "generate_tooltips"
    /\ ncalls = 1
    /\ prev = <<Text("<a href=\"google/twitter\" t><span class=\"fa b\">\n")>>
    /\ contains(lines[1], Text("title=\"Tweet this\""))

\* C5 as stated: every anchor <a href="U" ATTRS> of a line that a badge
\* span follows gets the title of the first keyword U contains, and the
\* line is returned unchanged when U contains none.
C5_Original ==
    Returned_from("generate_tooltips") =>
        \A k \in 1..Len(prev) : \A pos \in 1..Len(prev[k]) :
            LET line == prev[k]
                r == MatchFrom(p_social, 1, line, pos)
                m == [start |-> pos, ends |-> r]
                n == FirstKeyword(Item(line, m, 2))
            IN r # Fail =>
                  IF n = 0 THEN lines[k] = line
                  ELSE contains(lines[k], Titled(line, m, n))

=============================================================================
